---------------------------- MODULE Spec2Model ----------------------------
(***************************************************************************)
(* A model of src/render_3d.py: the batch renderer ObjectRenderer.          *)
(*                                                                         *)
(* Spec      a run of render_all_objects over a file tree, render_object   *)
(*           step by step, with the OpenGL state the calls share.          *)
(* SpecNorm  the center-and-scale step of render_object on every mesh of   *)
(*           the bounds, applied once and once more.                       *)
(* SpecView  random_viewpoint on every pair of draws of the bounds.        *)
(*                                                                         *)
(* Numbers.  The program computes in IEEE doubles; the model computes in   *)
(* exact rationals.  A mesh keeps integer numerators over one common       *)
(* denominator `den`.  den = 0 encodes the outcome of multiplying by the   *)
(* infinity that numpy returns for 1.0 / 0.0: a numerator > 0 stands for   *)
(* +inf, < 0 for -inf and 0 for nan (0 * inf).                             *)
(***************************************************************************)
EXTENDS Integers, Sequences, FiniteSets, TLC

\* ------------------------------------------------------------------ bounds
\* largest vertex coordinate of the meshes the normalizer is run on
MaxCoord == 1
\* largest number of vertices of those meshes
MaxVerts == 4
\* the random angles drawn are those whose cosine and sine are fractions with
\* a denominator of at most MaxHyp
MaxHyp == 13
\* the angles drawn within a batch: denominators of at most BatchHyp
BatchHyp == 1
\* largest number of files os.walk yields
MaxFiles == 2
\* random.randint(0, 999999) is drawn from 0..MaxSuffix
MaxSuffix == 1
\* largest radius a caller tries to hand to the viewpoint sampler
MaxRadius == 4

VARIABLES
  \* the center-and-scale step on its own
  nMesh,      \* the mesh as loaded
  nOnce,      \* the mesh after one center-and-scale step
  nTwice,     \* the mesh after a second one
  nState      \* "loaded", "once", "twice", or the exception raised

normVars == <<nMesh, nOnce, nTwice, nState>>

VARIABLES
  \* the viewpoint sampler on its own
  vArgs,      \* the positional arguments of the last call of random_viewpoint
  vResult     \* what that call did: nothing yet, returned a point, raised

viewVars == <<vArgs, vResult>>

VARIABLES
  \* render_all_objects and the render_object call it is in
  walk,            \* the files os.walk yields, in order, each with its content
  idx,             \* the position of the loop in walk
  pc,              \* the next step: of the loop, or of render_object
  calls,           \* the files handed to render_object so far
  raised,          \* the files whose render_object call raised
  log,             \* the lines printed
  rendered_files,  \* the list render_all_objects builds
  written,         \* the images saved under renders/, in order
  reported,        \* N of "Successfully rendered N objects", -1 before
  glTexture2D,     \* whether GL_TEXTURE_2D is enabled
  glTextures,      \* the texture names generated and not deleted
  glInBegin,       \* whether a glBegin is waiting for its glEnd
  mesh,            \* render_object's mesh
  texture_id,      \* render_object's texture_id, 0 for None
  camera,          \* the look-at transform render_object has set
  output_path,     \* render_object's output_path
  steps            \* what the current (or last) render_object call did, in order

batchVars == <<walk, idx, pc, calls, raised, log, rendered_files, written, reported,
               glTexture2D, glTextures, glInBegin, mesh, texture_id, camera,
               output_path, steps>>

vars == <<normVars, viewVars, batchVars>>

\* -------------------------------------------------------------- arithmetic
Abs(n) == IF n < 0 THEN -n ELSE n

Sign(n) == IF n > 0 THEN 1 ELSE IF n < 0 THEN -1 ELSE 0

RECURSIVE GCD(_, _)
GCD(a, b) == IF b = 0 THEN Abs(a) ELSE GCD(Abs(b), Abs(a) % Abs(b))

RECURSIVE GCDSet(_)
GCDSet(S) ==
  IF S = {} THEN 0
  ELSE LET n == CHOOSE n \in S : TRUE IN GCD(n, GCDSet(S \ {n}))

SetMax(S) == CHOOSE m \in S : \A n \in S : n <= m

SetMin(S) == CHOOSE m \in S : \A n \in S : m <= n

Zero3 == <<0, 0, 0>>

Add3(a, b) == <<a[1] + b[1], a[2] + b[2], a[3] + b[3]>>

Scale3(k, a) == <<k * a[1], k * a[2], k * a[3]>>

Sub3(a, b) == <<a[1] - b[1], a[2] - b[2], a[3] - b[3]>>

Cross3(a, b) ==
  <<a[2] * b[3] - a[3] * b[2], a[3] * b[1] - a[1] * b[3], a[1] * b[2] - a[2] * b[1]>>

\* ------------------------------------------------------------------ meshes
\* A mesh value: vertex numerators, their common denominator, the faces
\* (triples of vertex indices), and whether its material carries an image.
Mesh(verts, den, faces, textured) ==
  [verts |-> verts, den |-> den, faces |-> faces, textured |-> textured]

NoMesh == Mesh(<<>>, 1, <<>>, FALSE)

\* The same rational mesh in lowest terms (den > 0).
Reduce(verts, den) ==
  LET g == GCDSet({den} \cup {verts[i][k] : i \in DOMAIN verts, k \in 1..3})
  IN  [verts |-> [i \in DOMAIN verts |-> <<verts[i][1] \div g, verts[i][2] \div g, verts[i][3] \div g>>],
       den |-> den \div g]

\* A face's cross product (b - a) x (c - a): its normal, twice its area long.
FaceCross(verts, f) ==
  Cross3(Sub3(verts[f[2]], verts[f[1]]), Sub3(verts[f[3]], verts[f[1]]))

\* Component k of the three corners of a face: a + b + c, and
\* a^2 + b^2 + c^2 + ab + bc + ca.
F1(verts, f, k) == verts[f[1]][k] + verts[f[2]][k] + verts[f[3]][k]

F2(verts, f, k) ==
  LET a == verts[f[1]][k]
      b == verts[f[2]][k]
      c == verts[f[3]][k]
  IN  a * a + b * b + c * c + a * b + b * c + c * a

\* Six times the volume, in units of 1/den^3: the surface integral of x n_x,
\* summed over the faces (the volume the faces enclose when they close up).
RECURSIVE Volume6(_, _)
Volume6(verts, faces) ==
  IF faces = <<>> THEN 0
  ELSE FaceCross(verts, Head(faces))[1] * F1(verts, Head(faces), 1)
       + Volume6(verts, Tail(faces))

\* 24 times the first moment of the volume, in units of 1/den^4: component k
\* is the surface integral of (x_k)^2 / 2 times n_k.
RECURSIVE Moment24(_, _)
Moment24(verts, faces) ==
  IF faces = <<>> THEN Zero3
  ELSE LET f == Head(faces)
           d == FaceCross(verts, f)
       IN  Add3(<<d[1] * F2(verts, f, 1), d[2] * F2(verts, f, 2), d[3] * F2(verts, f, 3)>>,
                Moment24(verts, Tail(faces)))

\* mesh.center_mass, as a rational vector [num, den].  trimesh takes it from
\* the mass properties of the triangles: the first moment divided by the
\* volume, both as surface integrals over the faces; a volume of zero yields
\* the origin.  (It is the center of mass only when the faces close up.)
center_mass(m) ==
  LET v == Volume6(m.verts, m.faces)
  IN  IF v = 0 THEN [num |-> Zero3, den |-> 1]
      ELSE [num |-> Scale3(Sign(v), Moment24(m.verts, m.faces)),
            den |-> 4 * Abs(v) * m.den]

\* mesh.vertices -= mesh.center_mass
Centered(m) ==
  LET c == center_mass(m)
      r == Reduce([i \in DOMAIN m.verts |->
                     Add3(Scale3(c.den, m.verts[i]), Scale3(-m.den, c.num))],
                  m.den * c.den)
  IN  [m EXCEPT !.verts = r.verts, !.den = r.den]

\* mesh.vertices.max(axis=0) - mesh.vertices.min(axis=0), as numerators over m.den
Extents(m) ==
  [k \in 1..3 |-> SetMax({m.verts[i][k] : i \in DOMAIN m.verts})
                - SetMin({m.verts[i][k] : i \in DOMAIN m.verts})]

\* max(...) of the three extents
MinExtent(m) == SetMin({Extents(m)[k] : k \in 1..3})

MaxExtent(m) == SetMax({Extents(m)[k] : k \in 1..3})

\* mesh.vertices *= 1.0 / max_extent.  The extent e / den turns v / den into
\* v / e; an extent of zero makes the factor infinite (numpy warns and goes on).
Scaled(m) ==
  LET e == MaxExtent(m)
  IN  IF e = 0
      THEN [m EXCEPT !.verts = [i \in DOMAIN m.verts |->
                                  <<Sign(m.verts[i][1]), Sign(m.verts[i][2]), Sign(m.verts[i][3])>>],
                     !.den = 0]
      ELSE LET r == Reduce(m.verts, e)
           IN  [m EXCEPT !.verts = r.verts, !.den = r.den]

\* The center-and-scale step of render_object.  A mesh without vertices makes
\* the reduction over an empty array raise ValueError.
Raises(m) == Len(m.verts) = 0

Normalized(m) == Scaled(Centered(m))

\* -------------------------------------------------------- viewpoint sampler
\* An angle is given by its cosine c / d and sine s / d with c^2 + s^2 = d^2.
Angles(hyp) ==
  {a \in [c : -hyp..hyp, s : -hyp..hyp, d : 1..hyp] :
     a.c * a.c + a.s * a.s = a.d * a.d /\ GCD(GCD(a.c, a.s), a.d) = 1}

\* random.uniform(0, 2 * np.pi): any angle of the circle
ThetaDraws(hyp) == Angles(hyp)

\* random.uniform(0, np.pi): the upper half circle, pi itself left out
PhiDraws(hyp) == {a \in Angles(hyp) : a.s >= 0 /\ ~(a.s = 0 /\ a.c < 0)}

\* radius = 3.0
Radius == 3

\* A rational point [num, den] in lowest terms.
Point(num, den) ==
  LET g == GCDSet({den, num[1], num[2], num[3]})
  IN  [num |-> <<num[1] \div g, num[2] \div g, num[3] \div g>>, den |-> den \div g]

NoPoint == [num |-> Zero3, den |-> 1]

\* the body of random_viewpoint for the draws theta and phi
SphericalZSin(theta, phi) ==
  Point(<<Radius * phi.s * theta.c, Radius * phi.s * theta.s, Radius * phi.s * theta.d>>,
        phi.d * theta.d)

random_viewpoint(theta, phi) ==
  Point(<<Radius * phi.s * theta.c, Radius * phi.s * theta.s, Radius * phi.c * theta.d>>,
        phi.d * theta.d)

NormIdle ==
  /\ nMesh = NoMesh
  /\ nOnce = NoMesh
  /\ nTwice = NoMesh
  /\ nState = "idle"

ViewInit ==
  /\ vArgs = <<>>
  /\ vResult = [status |-> "none", point |-> NoPoint]

\* ------------------------------------------------------------ the file tree
\* The paths under data_path in the order os.walk yields them: the files of
\* the top directory, then those of its sub-directory.
Tree ==
  << [dir |-> "data", name |-> "a", ext |-> "obj"],
     [dir |-> "data", name |-> "a", ext |-> "mtl"],
     [dir |-> "data/sub", name |-> "a", ext |-> "obj"],
     [dir |-> "data/sub", name |-> "b", ext |-> "obj"] >>

\* os.path.basename, os.path.splitext
basename(path) == <<path.name, path.ext>>

splitext(file) == <<file[1], file[2]>>

\* file.endswith('.obj')
EndsWithObj(path) == basename(path)[2] = "obj"

\* The meshes found in the files.
EmptyMesh(textured) == Mesh(<<>>, 1, <<>>, textured)

PointMesh(textured) ==
  Mesh(<< <<1, 1, 1>>, <<1, 1, 1>>, <<1, 1, 1>> >>, 1, << <<1, 2, 3>> >>, textured)

ThinTriangle(textured) ==
  Mesh(<< <<0, 0, 0>>, <<2, 0, 0>>, <<0, 0, 0>> >>, 1, << <<1, 2, 3>> >>, textured)

OpenTriangle(textured) ==
  Mesh(<< <<1, 0, 0>>, <<0, 1, 0>>, <<0, 0, 1>> >>, 1, << <<1, 2, 3>> >>, textured)

\* What trimesh.load does with a file: raise, return something that is no
\* Trimesh, or return a Trimesh.
Contents ==
  {[load |-> "raise", mesh |-> NoMesh], [load |-> "other", mesh |-> NoMesh]}
  \cup {[load |-> "Trimesh", mesh |-> m] :
          m \in {EmptyMesh(FALSE), PointMesh(FALSE), PointMesh(TRUE),
                 ThinTriangle(FALSE), OpenTriangle(FALSE), OpenTriangle(TRUE)}}

\* The elements of a set of positions of Tree, in order.
RECURSIVE Listing(_)
Listing(S) ==
  IF S = {} THEN <<>>
  ELSE LET i == SetMin(S) IN <<Tree[i]>> \o Listing(S \ {i})

\* ------------------------------------------------------------ the batch run
None == [base |-> "None", suffix |-> -1]

NoCamera == [eye |-> NoPoint, target |-> Zero3, up |-> Zero3]

BatchIdle ==
  /\ walk = <<>>
  /\ idx = 0
  /\ pc = "idle"
  /\ calls = <<>>
  /\ raised = {}
  /\ log = <<>>
  /\ rendered_files = <<>>
  /\ written = <<>>
  /\ reported = -1
  /\ glTexture2D = FALSE
  /\ glTextures = {}
  /\ glInBegin = FALSE
  /\ mesh = NoMesh
  /\ texture_id = 0
  /\ camera = NoCamera
  /\ output_path = None
  /\ steps = <<>>

\* ObjectRenderer() and setup_camera() are done; render_all_objects starts.
BatchInit ==
  /\ \E S \in SUBSET (1..Len(Tree)) :
       /\ Cardinality(S) <= MaxFiles
       /\ \E content \in [1..Cardinality(S) -> Contents] :
            /\ \A i \in 1..Cardinality(S) :
                 ~EndsWithObj(Listing(S)[i]) => content[i] = [load |-> "other", mesh |-> NoMesh]
            /\ walk = [i \in 1..Cardinality(S) |->
                         [path |-> Listing(S)[i], load |-> content[i].load, mesh |-> content[i].mesh]]
  /\ idx = 1
  /\ pc = "walk"
  /\ calls = <<>>
  /\ raised = {}
  /\ log = <<>>
  /\ rendered_files = <<>>
  /\ written = <<>>
  /\ reported = -1
  /\ glTexture2D = FALSE
  /\ glTextures = {}
  /\ glInBegin = FALSE
  /\ mesh = NoMesh
  /\ texture_id = 0
  /\ camera = NoCamera
  /\ output_path = None
  /\ steps = <<>>

idle == <<normVars, viewVars>>

glVars == <<glTexture2D, glTextures, glInBegin>>

\* The order of the steps of render_object: the step that follows step p.
AfterNormalizeLate(p) ==
  CASE p = "load" -> "texture"
    [] p = "texture" -> "camera"
    [] p = "camera" -> "draw"
    [] p = "draw" -> "normalize"
    [] p = "normalize" -> "save"
    [] p = "save" -> "cleanup"

After(p) ==
  CASE p = "load" -> "normalize"
    [] p = "normalize" -> "texture"
    [] p = "texture" -> "camera"
    [] p = "camera" -> "draw"
    [] p = "draw" -> "save"
    [] p = "save" -> "cleanup"

\* except Exception: the exceptions the steps raise all derive from Exception.
CatchesValueError(exc) == exc = "ValueError"

Catches(exc) == exc \in {"ValueError", "OSError", "GLError"}

\* render_object's frame is gone: its locals with it.
DropLocals ==
  /\ mesh' = NoMesh
  /\ texture_id' = 0
  /\ camera' = NoCamera
  /\ output_path' = None

\* render_object raises exc after doing `done`: the except clause prints the
\* error and the loop goes on with the next file.
RaiseFromRenderObject(exc, done) ==
  /\ steps' = steps \o done \o <<exc>>
  /\ raised' = raised \cup {idx}
  /\ DropLocals
  /\ IF Catches(exc)
     THEN /\ log' = Append(log, [msg |-> "Error rendering", file |-> idx, exc |-> exc, output |-> None])
          /\ idx' = idx + 1
          /\ pc' = "walk"
     ELSE /\ log' = log
          /\ idx' = idx
          /\ pc' = "aborted"
  /\ UNCHANGED <<walk, calls, rendered_files, written, reported>>

\* render_object returns value after doing `done`: the value is appended and
\* "Rendered: ..." printed.
ReturnFromRenderObject(value, done) ==
  /\ steps' = steps \o done
  /\ DropLocals
  /\ rendered_files' = Append(rendered_files, value)
  /\ log' = Append(log, [msg |-> "Rendered", file |-> idx, exc |-> "", output |-> value])
  /\ idx' = idx + 1
  /\ pc' = "walk"
  /\ UNCHANGED <<walk, calls, raised, written, reported>>

\* the loop meets a file that does not end in '.obj'
SkipOtherFile ==
  /\ pc = "walk"
  /\ idx <= Len(walk)
  /\ ~EndsWithObj(walk[idx].path)
  /\ idx' = idx + 1
  /\ UNCHANGED <<walk, pc, calls, raised, log, rendered_files, written, reported,
                 glVars, mesh, texture_id, camera, output_path, steps>>
  /\ UNCHANGED idle

\* the loop meets an '.obj' file and calls render_object on it
CallRenderObject ==
  /\ pc = "walk"
  /\ idx <= Len(walk)
  /\ EndsWithObj(walk[idx].path)
  /\ calls' = Append(calls, idx)
  /\ steps' = <<>>
  /\ pc' = "load"
  /\ UNCHANGED <<walk, idx, raised, log, rendered_files, written, reported,
                 glVars, mesh, texture_id, camera, output_path>>
  /\ UNCHANGED idle

\* the walk is over: render_all_objects returns and the script prints the count
ReturnRenderedFiles ==
  /\ pc = "walk"
  /\ idx > Len(walk)
  /\ pc' = "done"
  /\ reported' = Len(rendered_files)
  /\ UNCHANGED <<walk, idx, calls, raised, log, rendered_files, written,
                 glVars, mesh, texture_id, camera, output_path, steps>>
  /\ UNCHANGED idle

\* trimesh.load and the isinstance test
LoadMesh ==
  /\ pc = "load"
  /\ CASE walk[idx].load = "raise" ->
            RaiseFromRenderObject("ValueError", <<>>)
       [] walk[idx].load = "other" ->
            ReturnFromRenderObject(None, <<"load", "skip">>)
       [] walk[idx].load = "Trimesh" ->
            /\ mesh' = walk[idx].mesh
            /\ steps' = Append(steps, "load")
            /\ pc' = After("load")
            /\ UNCHANGED <<walk, idx, calls, raised, log, rendered_files, written,
                           reported, texture_id, camera, output_path>>
  /\ UNCHANGED glVars
  /\ UNCHANGED idle

\* center and scale the mesh
CenterAndScale ==
  /\ pc = "normalize"
  /\ IF Raises(mesh)
     THEN RaiseFromRenderObject("ValueError", <<>>)
     ELSE /\ mesh' = Normalized(mesh)
          /\ steps' = Append(steps, "normalize")
          /\ pc' = After("normalize")
          /\ UNCHANGED <<walk, idx, calls, raised, log, rendered_files, written,
                         reported, texture_id, camera, output_path>>
  /\ UNCHANGED glVars
  /\ UNCHANGED idle

\* glGenTextures(1): a name not in use
FreshTexture == SetMin((1..(Cardinality(glTextures) + 1)) \ glTextures)

\* load the texture if the material has an image
LoadTexture ==
  /\ pc = "texture"
  /\ IF mesh.textured
     THEN /\ texture_id' = FreshTexture
          /\ glTextures' = glTextures \cup {FreshTexture}
          /\ glTexture2D' = TRUE
     ELSE /\ texture_id' = 0
          /\ UNCHANGED <<glTextures, glTexture2D>>
  /\ steps' = Append(steps, "texture")
  /\ pc' = After("texture")
  /\ UNCHANGED <<walk, idx, calls, raised, log, rendered_files, written, reported,
                 glInBegin, mesh, camera, output_path>>
  /\ UNCHANGED idle

\* clear the buffers, sample a viewpoint, set the look-at transform and the material
SetCamera ==
  /\ pc = "camera"
  /\ \E theta \in ThetaDraws(BatchHyp) : \E phi \in PhiDraws(BatchHyp) :
       camera' = [eye |-> random_viewpoint(theta, phi), target |-> Zero3, up |-> <<0, 1, 0>>]
  /\ steps' = steps \o <<"clear", "viewpoint", "lookat">>
  /\ pc' = After("camera")
  /\ UNCHANGED <<walk, idx, calls, raised, log, rendered_files, written, reported,
                 glVars, mesh, texture_id, output_path>>
  /\ UNCHANGED idle

\* glBegin, the loop over the faces, glEnd
DrawMesh ==
  /\ pc = "draw"
  /\ glInBegin' = FALSE
  /\ steps' = Append(steps, "draw")
  /\ pc' = After("draw")
  /\ UNCHANGED <<walk, idx, calls, raised, log, rendered_files, written, reported,
                 glTexture2D, glTextures, mesh, texture_id, camera, output_path>>
  /\ UNCHANGED idle

\* a call in the loop over the faces raises: glEnd is not reached
DrawMeshRaises ==
  /\ pc = "draw"
  /\ Len(mesh.faces) > 0
  /\ glInBegin' = TRUE
  /\ RaiseFromRenderObject("GLError", <<>>)
  /\ UNCHANGED <<glTexture2D, glTextures>>
  /\ UNCHANGED idle

\* renders/<base name>_view_<n>.png
OutputPath(path, n) == [base |-> splitext(basename(path))[1], suffix |-> n]

\* flip, read the pixels back, save the image
SaveImage ==
  /\ pc = "save"
  /\ \E n \in 0..MaxSuffix :
       /\ output_path' = OutputPath(walk[idx].path, n)
       /\ written' = Append(written, [src |-> idx, path |-> OutputPath(walk[idx].path, n)])
  /\ steps' = steps \o <<"read", "save">>
  /\ pc' = After("save")
  /\ UNCHANGED <<walk, idx, calls, raised, log, rendered_files, reported,
                 glVars, mesh, texture_id, camera>>
  /\ UNCHANGED idle

\* img.save raises
SaveImageRaises ==
  /\ pc = "save"
  /\ RaiseFromRenderObject("OSError", <<"read">>)
  /\ UNCHANGED glVars
  /\ UNCHANGED idle

\* delete the texture, if there is one, and return the path
CleanupTexture ==
  /\ pc = "cleanup"
  /\ IF texture_id # 0
     THEN /\ glTextures' = glTextures \ {texture_id}
          /\ glTexture2D' = FALSE
     ELSE UNCHANGED <<glTextures, glTexture2D>>
  /\ ReturnFromRenderObject(output_path, <<"cleanup">>)
  /\ UNCHANGED glInBegin
  /\ UNCHANGED idle

Next ==
  \/ SkipOtherFile
  \/ CallRenderObject
  \/ ReturnRenderedFiles
  \/ LoadMesh
  \/ CenterAndScale
  \/ LoadTexture
  \/ SetCamera
  \/ DrawMesh
  \/ DrawMeshRaises
  \/ SaveImage
  \/ SaveImageRaises
  \/ CleanupTexture

Init == BatchInit /\ NormIdle /\ ViewInit

Spec == Init /\ [][Next]_vars

\* ----------------------------------------------- the viewpoint sampler alone
\* A call self.random_viewpoint(*args): the method takes no argument besides
\* self, so a call that passes a radius raises TypeError.
CallRandomViewpoint ==
  \E args \in {<<>>} \cup {<<r>> : r \in 1..MaxRadius} :
    \E theta \in ThetaDraws(MaxHyp) : \E phi \in PhiDraws(MaxHyp) :
      /\ vArgs' = args
      /\ vResult' = IF args # <<>>
                    THEN [status |-> "TypeError", point |-> NoPoint]
                    ELSE [status |-> "returned", point |-> random_viewpoint(theta, phi)]
      /\ UNCHANGED <<normVars, batchVars>>

\* ------------------------------------------- the center-and-scale step alone
Points == {<<x, y, z>> : x \in 0..MaxCoord, y \in 0..MaxCoord, z \in 0..MaxCoord}

\* The face lists tried on n vertices: none, one triangle, a closed tetrahedron.
FaceChoices(n) ==
  {<<>>}
  \cup (IF n >= 3 THEN {<< <<1, 2, 3>> >>} ELSE {})
  \cup (IF n >= 4 THEN {<< <<1, 3, 2>>, <<1, 2, 4>>, <<2, 3, 4>>, <<1, 4, 3>> >>} ELSE {})

NormInit ==
  /\ \E n \in 0..MaxVerts : \E verts \in [1..n -> Points] : \E faces \in FaceChoices(n) :
        nMesh = Mesh(verts, 1, faces, FALSE)
  /\ nOnce = NoMesh
  /\ nTwice = NoMesh
  /\ nState = "loaded"

NormalizeLoaded ==
  /\ nState = "loaded"
  /\ IF Raises(nMesh)
     THEN nState' = "ValueError" /\ nOnce' = nOnce
     ELSE nState' = "once" /\ nOnce' = Normalized(nMesh)
  /\ UNCHANGED <<nMesh, nTwice>>
  /\ UNCHANGED <<viewVars, batchVars>>

NormalizeAgain ==
  /\ nState = "once"
  /\ nOnce.den > 0
  /\ nState' = "twice"
  /\ nTwice' = Normalized(nOnce)
  /\ UNCHANGED <<nMesh, nOnce>>
  /\ UNCHANGED <<viewVars, batchVars>>

NormNext == NormalizeLoaded \/ NormalizeAgain

InitNorm == NormInit /\ ViewInit /\ BatchIdle

SpecNorm == InitNorm /\ [][NormNext]_vars

ViewNext == CallRandomViewpoint

InitView == ViewInit /\ NormIdle /\ BatchIdle

SpecView == InitView /\ [][ViewNext]_vars

\* ------------------------------------------------ claims on the batch run
Range(f) == {f[i] : i \in DOMAIN f}

IsPrefix(s, t) == Len(s) <= Len(t) /\ \A i \in DOMAIN s : s[i] = t[i]

IsObjAt(i) == EndsWithObj(walk[i].path)

\* the positions of the '.obj' files of the walk, in order
ObjFiles == SelectSeq([i \in 1..Len(walk) |-> i], IsObjAt)

\* the file of the current render_object call, or of the last one
CurFile == walk[calls[Len(calls)]]

\* C1: whatever '.obj' files are found and whichever of them make
\* render_object raise, every '.obj' file is passed to render_object exactly
\* once, a failure is logged and skipped, and render_all_objects returns
\* normally.
C1_NoBadInputAbortsTheRun ==
  /\ pc \in {"walk", "load", "normalize", "texture", "camera", "draw", "save", "cleanup", "done"}
  /\ IsPrefix(calls, ObjFiles)
  /\ pc = "done" => calls = ObjFiles
  /\ \A i \in raised :
       /\ \E k \in DOMAIN log : log[k].msg = "Error rendering" /\ log[k].file = i
       /\ \A k \in DOMAIN log : log[k].msg = "Rendered" => log[k].file # i

\* a run that went on after its first call raised, rendered a file, and returned
C1_Witness ==
  /\ pc = "done"
  /\ Len(calls) >= 2
  /\ calls[1] \in raised
  /\ Len(rendered_files) >= 1

Degenerate(m) == IF Len(m.verts) = 0 THEN TRUE ELSE MaxExtent(Centered(m)) = 0

\* C2: normalizing a mesh with no vertices, or with all vertices coincident,
\* fails with an error instead of dividing by zero; no scaled mesh is produced
\* and no image is rendered from it.  (Python has no DegenerateMeshError: any
\* exception raised by the step counts as that failure.)
C2_DegenerateMeshError ==
  (calls # <<>> /\ CurFile.load = "Trimesh" /\ Degenerate(CurFile.mesh)) =>
     /\ "normalize" \notin Range(steps)
     /\ "save" \notin Range(steps)
     /\ pc \in {"load", "normalize", "walk", "done"}
     /\ mesh.den # 0

IsThin(file) == file.load = "Trimesh" /\ file.mesh = ThinTriangle(FALSE)

\* C4 as stated: normalizing the triangle (0,0,0), (2,0,0), (0,0,0) raises
\* DegenerateMeshError, so the step never completes on it.
C4_ThinTriangleRaises ==
  (calls # <<>> /\ IsThin(CurFile)) => "normalize" \notin Range(steps)

\* C4 as amended: normalizing the triangle (0,0,0), (2,0,0), (0,0,0) raises
\* nothing: its largest extent is 2, so the step completes and scales the
\* vertices by 1/2, to (0,0,0), (1,0,0), (0,0,0).
C4_ThinTriangleScales ==
  (calls # <<>> /\ IsThin(CurFile)) =>
     /\ "ValueError" \notin Range(steps)
     /\ "DegenerateMeshError" \notin Range(steps)
     /\ (pc \in {"texture", "camera", "draw", "save", "cleanup"} /\ "normalize" \in Range(steps)) =>
          /\ mesh.verts = << <<0, 0, 0>>, <<1, 0, 0>>, <<0, 0, 0>> >>
          /\ mesh.den = 1

\* the step has just completed on that triangle
C4_Witness == calls # <<>> /\ IsThin(CurFile) /\ pc = "texture" /\ mesh.den = 1

Order == <<"load", "normalize", "viewpoint", "lookat", "draw", "read", "save">>

Listed(x) == x \in Range(Order)

Count(s, x) == Cardinality({i \in DOMAIN s : s[i] = x})

\* C7: within a render_object call the steps happen in the order load,
\* normalize, sample a viewpoint, set the look-at camera (target the origin,
\* up +Y), draw the normalized vertices, read back, save: an image is saved
\* only after the mesh was normalized and exactly one viewpoint was sampled in
\* that call, and a load that yields no triangle mesh samples no viewpoint and
\* saves no image.
C7_StepsInOrder ==
  /\ IsPrefix(SelectSeq(steps, Listed), Order)
  /\ "save" \in Range(steps) =>
       "normalize" \in Range(steps) /\ Count(steps, "viewpoint") = 1
  /\ (written # <<>> /\ calls # <<>> /\ written[Len(written)].src = calls[Len(calls)]) =>
       "save" \in Range(steps)
  /\ \A w \in DOMAIN written : written[w].src \in Range(calls)
  /\ "skip" \in Range(steps) => steps = <<"load", "skip">>
  /\ pc \in {"draw", "save", "cleanup"} =>
       /\ mesh = Normalized(CurFile.mesh)
       /\ camera.target = Zero3
       /\ camera.up = <<0, 1, 0>>
       /\ camera.eye # NoPoint

\* a finished run whose first call saved an image and whose second was skipped
C7_Witness ==
  /\ pc = "done"
  /\ Len(calls) = 2
  /\ Len(written) = 1
  /\ written[1].src = calls[1]
  /\ steps = <<"load", "skip">>

\* C8: every element of the list render_all_objects returns is the path of an
\* image render_object saved, so the count printed equals the number of meshes
\* an image was written for; a skipped or failed file contributes no element.
C8_RenderedFilesAreSavedImages ==
  /\ \A k \in DOMAIN rendered_files :
       \E w \in DOMAIN written : written[w].path = rendered_files[k]
  /\ pc = "done" => reported = Cardinality({written[w].src : w \in DOMAIN written})

\* C9: every render_object call of a batch, also after calls that raised
\* partway, begins with GL_TEXTURE_2D disabled, no texture left over from an
\* earlier mesh, and no glBegin without its glEnd.
C9_CallsStartClean ==
  pc = "load" => (~glTexture2D /\ glTextures = {} /\ ~glInBegin)

\* C10: within one run the images written for distinct '.obj' files have
\* pairwise distinct output paths: no render overwrites the image of another
\* mesh.
C10_OutputPathsDistinct ==
  \A i, j \in DOMAIN written : i # j => written[i].path # written[j].path

\* ------------------------------------------- claims on the viewpoint sampler
Norm2(p) == p.num[1] * p.num[1] + p.num[2] * p.num[2] + p.num[3] * p.num[3]

RECURSIVE VertexSum(_)
VertexSum(verts) ==
  IF verts = <<>> THEN Zero3 ELSE Add3(Head(verts), VertexSum(Tail(verts)))

\* "Centroid / center of mass: the mean (or mass-weighted mean) position of a
\* mesh's vertices": at the origin under either reading.
CentroidAtOrigin(m) ==
  \/ VertexSum(m.verts) = Zero3
  \/ center_mass(m).num = Zero3

NonCoincident(m) == \E i, j \in DOMAIN m.verts : m.verts[i] # m.verts[j]

\* C3: for every mesh with at least two non-coincident vertices, after the
\* center-and-scale step the centroid is at the origin and the largest
\* bounding-box extent equals 1.0.
C3_CenteredUnitExtent ==
  (nState = "once" /\ NonCoincident(nMesh)) =>
     /\ CentroidAtOrigin(nOnce)
     /\ nOnce.den > 0
     /\ MaxExtent(nOnce) = nOnce.den

\* C6: the center-and-scale step is idempotent on every non-degenerate mesh:
\* a second application leaves every vertex unchanged.
C6_Idempotent ==
  (nState = "twice" /\ NonCoincident(nMesh)) => nTwice = nOnce

=============================================================================
